---- MODULE Spec2Model ----
(***************************************************************************)
(* Companies House scraper pipeline of aspora-io/openrole:                 *)
(*   tools/companies-house-scraper/simple_scraper.py   (in-memory dedup)   *)
(*   tools/companies-house-scraper/db_scraper.py       (PostgreSQL upsert) *)
(*   tools/companies-house-scraper/db_scraper_fixed.py (its fixed version) *)
(* The three scripts share the fetch / parse / driver structure; the       *)
(* variable `variant` says which of them is running.                       *)
(***************************************************************************)
EXTENDS Integers, Sequences, FiniteSets, TLC

VARIABLES
    variant,        \* which script runs
    sectors,        \* argument `sectors` of scrape_and_save / scrape_companies_by_sector
    max_pages,      \* argument `max_pages`
    invocations,    \* how many times the operator invokes the script
    world,          \* "any": upstream content is arbitrary; "example": spec.md section 8;
                    \* "rerun": arbitrary content that stays the same, and nothing fails;
                    \* "sessions": instances of the script saving at the same time
    run,            \* number of the current invocation (also the clock: now = run)
    pc,             \* position of the driver
    sectorIdx,      \* index of the current sector in sectors (for sector in sectors)
    page,           \* current page (for page in range(1, max_pages + 1))
    companies,      \* result of the last search_companies call
    idx,            \* index of the next company of `companies` to handle
    sector_count,   \* scrape_and_save: sector_count
    total_saved,    \* scrape_and_save: total_saved
    sector_stats,   \* scrape_and_save: sector_stats (dict keyed by sector keyword)
    store,          \* committed rows of table scraped_companies
    conn,           \* state of the psycopg2 connection
    seen_companies, \* simple_scraper: seen_companies
    all_companies,  \* simple_scraper: all_companies
    served,         \* world "rerun": the pages the registry has served, per sector and page
    firstStore,     \* world "rerun": the table as the previous invocation left it
    tx,             \* world "sessions": the transactions of concurrent save_company_to_db calls
    result,         \* world "parse": the result block handed to parse_company_result
    api_key,        \* scraper.py: whether self.api_key is set
    max_companies,  \* scraper.py: argument max_companies
    term,           \* scraper.py: index of `term` in tech_related_terms
    start_index,    \* scraper.py: start_index
    results,        \* scraper.py: results, the last search response
    events,         \* history: requests issued and sleeps taken in this run
    calls,          \* history: number of persistence calls per company_number in this run
    lastSave        \* history: how the persistence call of the last step ended

vars == <<variant, sectors, max_pages, invocations, world, run, pc, sectorIdx, page, companies, idx, sector_count,
          total_saved, sector_stats, store, conn, seen_companies, all_companies,
          served, firstStore, tx, result,
          api_key, max_companies, term, start_index, results, events, calls, lastSave>>

-----------------------------------------------------------------------------
(* Bounds of the model *)

\* largest number of result blocks (li.type-company) on one fetched page
MaxBlocks == 2
\* largest number of page requests the invocations of one behaviour can issue together:
\* number of sectors * page cap * number of invocations
MaxRequests == 2

(* Program constants *)

\* main(): scraper.scrape_and_save(sectors, max_pages=2)
main_max_pages == 2

\* Python's None (an absent dict key read with .get, SQL NULL)
None == "None"
\* parse_company_result returning None instead of a dict
NoCompany == [none |-> TRUE]

Variants == {"simple_scraper", "db_scraper", "db_scraper_fixed"}
DbVariants == {"db_scraper", "db_scraper_fixed"}

\* main(): sectors = [...]
main_sectors == <<"technology", "software", "consulting", "recruitment", "marketing",
                  "finance", "healthcare", "retail", "manufacturing", "construction">>

\* the sector lists of length n a caller passes: the first n sectors of main()'s
\* list, or its first sector n times (the argument is a plain list)
SectorLists(n) == {SubSeq(main_sectors, 1, n), [i \in 1..n |-> main_sectors[1]]}

\* what the script is asked to do: a sector list of length n with page cap m,
\* invoked k times against the same table
Plans ==
    UNION {{[sectors |-> list, max_pages |-> p[2], invocations |-> p[3]] :
               list \in SectorLists(p[1])} :
        p \in {q \in (1..MaxRequests) \X (1..MaxRequests) \X (1..MaxRequests) :
                  q[1] * q[2] * q[3] <= MaxRequests}}

\* the same sector lists and page caps for a script that is invoked twice
RerunPlans ==
    {[sectors |-> SubSeq(main_sectors, 1, p[1]), max_pages |-> p[2], invocations |-> 2] :
        p \in {q \in (1..MaxRequests) \X (1..MaxRequests) : q[1] * q[2] <= MaxRequests}}

\* a saturating count for the history variables: CountCap stands for 'or more'
CountCap == 2
Bump(n) == IF n < CountCap THEN n + 1 ELSE n

base_url == "https://find-and-update.company-information.service.gov.uk"

-----------------------------------------------------------------------------
(* Upstream markup.  A paragraph text is represented by the outcome of every *)
(* test the parsers apply to it.                                            *)

\* str: the stripped text; has: the literal substrings it contains;
\* long: len(text) > 20; matching: text.startswith('Matching');
\* date: group 1 of 'Incorporated on (\d{1,2} \w+ \d{4})' or "" when no match;
\* postal: the match of the postal-code pattern or "" when no match;
\* cls: the <p> has class 'address'; span: it holds a <span class="address">
Text(str, has, long, matching, date, postal, cls, span) ==
    [str |-> str, has |-> has, long |-> long, matching |-> matching,
     date |-> date, postal |-> postal, cls |-> cls, span |-> span]

tActive      == Text("Active", {"Active"}, FALSE, FALSE, "", "", FALSE, FALSE)
tDissolved   == Text("Dissolved", {"Dissolved"}, FALSE, FALSE, "", "", FALSE, FALSE)
tDissolvedOn == Text("Company dissolved on 3 May 2019", {"dissolved"}, TRUE, FALSE, "", "",
                     FALSE, FALSE)
tActiveDiss  == Text("Active - previously Dissolved", {"Active", "Dissolved"}, TRUE, FALSE,
                     "", "", FALSE, FALSE)
tLongAddress == Text("1 High Street, London, SW1A 1AA", {","}, TRUE, FALSE, "", "SW1A 1AA",
                     TRUE, TRUE)
tIncorporated == Text("12345678 - Incorporated on 1 January 2020", {}, TRUE, FALSE,
                      "1 January 2020", "", FALSE, FALSE)
tPrivate     == Text("Private limited Company", {"Private limited Company"}, TRUE, FALSE,
                     "", "", FALSE, FALSE)

tPublic      == Text("Public limited Company", {"Public limited Company"}, TRUE, FALSE,
                     "", "", FALSE, FALSE)
\* one fragment with two entity-type phrases, 'Private ...' first
tPrivatePublic == Text("Private limited Company, formerly Public limited Company",
                       {"Private limited Company", "Public limited Company", ","},
                       TRUE, FALSE, "", "", FALSE, FALSE)
tIncorporated2 == Text("Incorporated on 2 February 2021", {}, TRUE, FALSE,
                       "2 February 2021", "", FALSE, FALSE)
\* one fragment with two incorporation-date phrases; re.search gives the first
tTwoDates    == Text("Incorporated on 1 January 2020 - Incorporated on 2 February 2021",
                     {}, TRUE, FALSE, "1 January 2020", "", FALSE, FALSE)

\* h3: "none", "plain" (an <h3> without class heading-medium) or "heading-medium";
\* link: the <h3> holds an <a>; name: its text; href: its href; paras: the <p> texts
Block(h3, link, name, href, paras) ==
    [h3 |-> h3, link |-> link, name |-> name, href |-> href, paras |-> paras]

\* no block at hand (the driver is not inside parse_company_result)
NoBlock == Block("none", FALSE, "", "", <<>>)

\* scraper.py: search_companies returning {} (results.get('items') is None and
\* results.get('total_results', 0) is 0)
EmptyDict == [items |-> <<>>, total_results |-> 0]

\* the variables of scraper.py while another script runs
NoSic ==
    /\ api_key = FALSE /\ max_companies = 0 /\ term = 0 /\ start_index = 0
    /\ results = EmptyDict

\* re.search(r'/company/([A-Z0-9]+)', company_url): group 1, or '' when no match
company_number_of(href) ==
    CASE href = "/company/123" -> "123"
      [] href = "/company/456" -> "456"
      [] href = "/company/789" -> "789"
      [] OTHER -> ""

\* 'LIMITED' in company_name.upper(), 'PLC' in ..., 'LLP' in ...
name_upper_has(name) ==
    CASE name = "Gamma Limited" -> {"LIMITED"}
      [] name = "Delta PLC Limited" -> {"LIMITED", "PLC"}
      [] OTHER -> {}

\* datetime.strptime(date_str, '%d %B %Y').date(), None when it raises
strptime_date(date_str) ==
    CASE date_str = "1 January 2020" -> "2020-01-01"
      [] date_str = "2 February 2021" -> "2021-02-02"
      [] OTHER -> None

-----------------------------------------------------------------------------
(* Result Parser: parse_company_result of the three scripts *)

\* 'x' in text
In(sub, text) == sub \in text.has

\* company_data as first built by parse_company_result; a key the code has not set
\* reads None.  from_dissolved is a history field: the block the record was parsed
\* from holds a 'Dissolved' or 'dissolved' marker in one of its paragraphs.
new_company_data(v, block, now) ==
    [company_name |-> block.name,
     company_number |-> company_number_of(block.href),
     company_url |-> base_url \o block.href,
     company_status |-> IF v = "db_scraper_fixed" THEN "active" ELSE None,
     scraped_at |-> now,
     date_of_creation |-> None,
     company_type |-> None,
     address |-> None,
     postal_code |-> None,
     sector_keyword |-> None,
     from_dissolved |-> \E i \in 1..Len(block.paras) :
                            In("Dissolved", block.paras[i]) \/ In("dissolved", block.paras[i])]

\* the 'Check for status' step of simple_scraper.py and db_scraper.py
status_step(data, text) ==
    IF In("Active", text) THEN [data EXCEPT !.company_status = "active"]
    ELSE IF In("Dissolved", text) THEN [data EXCEPT !.company_status = "dissolved"]
    ELSE data

\* ... and whether its elif branch is taken: simple_scraper.py then skips the rest
\* of the iteration (`continue`), db_scraper.py returns None
status_dissolved(text) == ~In("Active", text) /\ In("Dissolved", text)

\* 'Check for company type' of simple_scraper.py and db_scraper.py
type_step(data, text) ==
    IF In("Private limited Company", text) THEN [data EXCEPT !.company_type = "ltd"]
    ELSE IF In("Public limited Company", text) THEN [data EXCEPT !.company_type = "plc"]
    ELSE IF In("Limited liability partnership", text) THEN [data EXCEPT !.company_type = "llp"]
    ELSE data

\* 'Check for company type indicators' of db_scraper_fixed.py (from the name)
name_type_step(data, name) ==
    IF "LIMITED" \in name_upper_has(name)
    THEN [data EXCEPT !.company_type =
            IF "PLC" \in name_upper_has(name) THEN "plc"
            ELSE IF "LLP" \in name_upper_has(name) THEN "llp"
            ELSE "ltd"]
    ELSE data

\* the postal-code search that follows an address assignment
postal_step(data, text) ==
    IF text.postal # "" THEN [data EXCEPT !.postal_code = text.postal] ELSE data

\* 'Extract address', per script
address_step(v, data, text) ==
    CASE v = "simple_scraper" ->
            IF text.span THEN [data EXCEPT !.address = text.str] ELSE data
      [] v = "db_scraper" ->
            IF text.cls \/ In(",", text)
            THEN postal_step([data EXCEPT !.address = text.str], text)
            ELSE data
      [] v = "db_scraper_fixed" ->
            IF In(",", text) /\ text.long /\ ~text.matching
            THEN postal_step([data EXCEPT !.address = text.str], text)
            ELSE data

\* 'Extract incorporation date': simple_scraper.py keeps the matched text, the db
\* scripts parse it and keep nothing when strptime raises
date_step(v, data, text) ==
    IF text.date = "" THEN data
    ELSE IF v = "simple_scraper" THEN [data EXCEPT !.date_of_creation = text.date]
    ELSE IF strptime_date(text.date) # None
         THEN [data EXCEPT !.date_of_creation = strptime_date(text.date)]
         ELSE data

\* db_scraper_fixed.py: 'Skip if dissolved mentioned anywhere'
dissolved_mentioned(text) == In("Dissolved", text) \/ In("dissolved", text)

\* one iteration of `for detail in details` (the fallback search for a company
\* number in db_scraper_fixed.py runs only when company_number is empty, which the
\* check before the loop excludes)
detail_step(v, name, data, text) ==
    IF v = "db_scraper_fixed"
    THEN address_step(v, name_type_step(date_step(v, data, text), name), text)
    ELSE IF status_dissolved(text) THEN status_step(data, text)
    ELSE date_step(v, address_step(v, type_step(status_step(data, text), text), text), text)

\* `return None` inside the loop: db_scraper_fixed.py on any mention, db_scraper.py
\* in the elif branch of its status check
returns_none(v, text) ==
    \/ v = "db_scraper_fixed" /\ dissolved_mentioned(text)
    \/ v = "db_scraper" /\ status_dissolved(text)

\* the whole loop; NoCompany when the script returns None from inside it
RECURSIVE scan_details(_, _, _, _, _)
scan_details(v, name, data, paras, i) ==
    IF i > Len(paras) THEN data
    ELSE IF returns_none(v, paras[i]) THEN NoCompany
    ELSE scan_details(v, name, detail_step(v, name, data, paras[i]), paras, i + 1)

\* the heading lookup: simple_scraper.py wants h3.heading-medium, the others any h3
has_title(v, block) ==
    IF v = "simple_scraper" THEN block.h3 = "heading-medium" ELSE block.h3 # "none"

\* db_scraper_fixed.py: `if not company_number: return None`
number_check(v, block) ==
    v = "db_scraper_fixed" => company_number_of(block.href) # ""

\* (variant of final_return: the record is returned whatever its status)
final_return_any_status(v, data) == data

\* the final return: simple_scraper.py and db_scraper.py return active records only
final_return(v, data) ==
    IF data = NoCompany THEN NoCompany
    ELSE IF v = "db_scraper_fixed" THEN data
    ELSE IF data.company_status = "active" THEN data
    ELSE NoCompany

parse_company_result(v, block, now) ==
    IF ~has_title(v, block) THEN NoCompany
    ELSE IF ~block.link THEN NoCompany
    ELSE IF ~number_check(v, block) THEN NoCompany
    ELSE final_return(v, scan_details(v, block.name, new_company_data(v, block, now),
                                      block.paras, 1))

\* search_companies after a successful fetch: the records of the blocks that parse
RECURSIVE parse_results(_, _, _, _)
parse_results(v, result_list, now, i) ==
    IF i > Len(result_list) THEN <<>>
    ELSE LET company_data == parse_company_result(v, result_list[i], now)
         IN  IF company_data # NoCompany
             THEN <<company_data>> \o parse_results(v, result_list, now, i + 1)
             ELSE parse_results(v, result_list, now, i + 1)

-----------------------------------------------------------------------------
(* Persistence Upserter: save_company_to_db of db_scraper.py / db_scraper_fixed.py *)

\* (variant of excluded_row: the data_source literal is another one)
excluded_row_other_source(company) ==
    [company_number |-> company.company_number,
     company_name |-> company.company_name,
     company_type |-> company.company_type,
     company_status |-> IF company.company_status = None THEN "active"
                        ELSE company.company_status,
     date_of_creation |-> company.date_of_creation,
     address |-> company.address,
     postal_code |-> company.postal_code,
     sector_keyword |-> company.sector_keyword,
     company_url |-> company.company_url,
     scraped_at |-> company.scraped_at,
     data_source |-> "scraper",
     last_checked_at |-> 0,
     updated_at |-> 0]

\* the VALUES (...) tuple of the INSERT, i.e. the EXCLUDED row; last_checked_at and
\* updated_at are not in the column list (0: left to the column default)
excluded_row(company) ==
    [company_number |-> company.company_number,
     company_name |-> company.company_name,
     company_type |-> company.company_type,
     company_status |-> IF company.company_status = None THEN "active"
                        ELSE company.company_status,
     date_of_creation |-> company.date_of_creation,
     address |-> company.address,
     postal_code |-> company.postal_code,
     sector_keyword |-> company.sector_keyword,
     company_url |-> company.company_url,
     scraped_at |-> company.scraped_at,
     data_source |-> "companies_house",
     last_checked_at |-> 0,
     updated_at |-> 0]

\* COALESCE(a, b): the first argument that is not NULL
COALESCE(a, b) == IF a # None THEN a ELSE b

\* address = ... and postal_code = ... of the DO UPDATE SET clause, per script
merge_field(v, excluded, existing) ==
    IF v = "db_scraper_fixed" THEN COALESCE(excluded, existing) ELSE excluded

\* (variant of do_update: company_name left out of the SET list)
do_update_keeps_name(v, row, excluded, now) ==
    [row EXCEPT !.address = merge_field(v, excluded.address, row.address),
                !.postal_code = merge_field(v, excluded.postal_code, row.postal_code),
                !.last_checked_at = now,
                !.updated_at = now]

\* (variant of do_update: the descriptive fields of the candidate are taken too)
do_update_all_fields(v, row, excluded, now) ==
    [row EXCEPT !.company_name = excluded.company_name,
                !.company_type = excluded.company_type,
                !.date_of_creation = excluded.date_of_creation,
                !.sector_keyword = excluded.sector_keyword,
                !.address = merge_field(v, excluded.address, row.address),
                !.postal_code = merge_field(v, excluded.postal_code, row.postal_code),
                !.last_checked_at = now,
                !.updated_at = now]

\* (variant of do_update: the provenance fields of the candidate are taken too)
do_update_provenance(v, row, excluded, now) ==
    [row EXCEPT !.company_name = excluded.company_name,
                !.company_status = excluded.company_status,
                !.company_url = excluded.company_url,
                !.scraped_at = excluded.scraped_at,
                !.data_source = excluded.data_source,
                !.address = merge_field(v, excluded.address, row.address),
                !.postal_code = merge_field(v, excluded.postal_code, row.postal_code),
                !.last_checked_at = now,
                !.updated_at = now]

\* ON CONFLICT (company_number) DO UPDATE SET ...
do_update(v, row, excluded, now) ==
    [row EXCEPT !.company_name = excluded.company_name,
                !.address = merge_field(v, excluded.address, row.address),
                !.postal_code = merge_field(v, excluded.postal_code, row.postal_code),
                !.last_checked_at = now,
                !.updated_at = now]

\* (variant of execute_upsert: a plain INSERT into a table without the constraint)
execute_upsert_plain_insert(v, db, company, now) == db \cup {excluded_row(company)}

\* (variant of conflicting: no unique constraint on company_number)
conflicting_none(db, excluded) == {}

\* the rows the unique constraint on company_number makes the INSERT conflict with
conflicting(db, excluded) == {r \in db : r.company_number = excluded.company_number}

\* cur.execute(insert_query, ...): the table as the open transaction sees it afterwards
execute_upsert(v, db, company, now) ==
    LET excluded == excluded_row(company)
        hit == conflicting(db, excluded)
    IN  IF hit = {} THEN db \cup {excluded}
        ELSE (db \ hit) \cup {do_update(v, r, excluded, now) : r \in hit}

\* conn.commit(): the transaction's table becomes the committed one
commit(committed, pending) == pending

\* (variant of rollback: the statement's effect stays)
rollback_keeps_pending(committed, pending) == pending

\* conn.rollback(), or the server dropping the transaction with the connection
rollback(committed, pending) == committed

\* how one save_company_to_db call can end: "ok"; "execute_error": cur.execute raises
\* (constraint violation, bad value); "commit_error": conn.commit raises;
\* "connection_lost": the connection is gone, so conn.rollback() in the except
\* block raises too and the exception leaves save_company_to_db
SaveOutcomes == {"ok", "execute_error", "commit_error", "connection_lost"}

\* the committed table after the call
saved_store(v, db, company, now, outcome) ==
    CASE outcome = "ok" -> commit(db, execute_upsert(v, db, company, now))
      [] outcome = "execute_error" -> rollback(db, db)
      [] outcome = "commit_error" -> rollback(db, execute_upsert(v, db, company, now))
      [] outcome = "connection_lost" -> rollback(db, execute_upsert(v, db, company, now))

\* the value save_company_to_db returns ("raise": the exception propagates)
save_result(outcome) ==
    CASE outcome = "ok" -> "True"
      [] outcome \in {"execute_error", "commit_error"} -> "False"
      [] outcome = "connection_lost" -> "raise"

-----------------------------------------------------------------------------
(* Upstream content *)

H == "heading-medium"
bAcme      == Block(H, TRUE, "Acme", "/company/123", <<tActive>>)
bAcmeLong  == Block(H, TRUE, "Acme Ltd", "/company/123",
                    <<tActive, tLongAddress, tPrivate, tIncorporated>>)
bBeta      == Block(H, TRUE, "Beta", "/company/456", <<tDissolved>>)
bBetaSame  == Block(H, TRUE, "Beta", "/company/456", <<tActiveDiss>>)
bBetaLater == Block(H, TRUE, "Beta", "/company/456", <<tDissolvedOn, tActive>>)
bBetaEarly == Block(H, TRUE, "Beta", "/company/456", <<tActive, tDissolved>>)
bBetaActive == Block(H, TRUE, "Beta", "/company/456", <<tActive>>)
bGamma     == Block(H, TRUE, "Gamma Limited", "/company/789",
                    <<tPrivate, tIncorporated, tActive>>)
bNoNumber  == Block(H, TRUE, "Echo", "/search/companies?q=echo", <<tActive>>)
bNoLink    == Block(H, FALSE, "", "", <<tActive>>)
bNoTitle   == Block("none", FALSE, "", "", <<tActive>>)

\* the result blocks a page of search results is made of
Blocks == {bAcme, bAcmeLong, bBeta, bBetaSame, bBetaLater, bBetaEarly, bBetaActive, bGamma,
           bNoNumber, bNoLink, bNoTitle}

\* the blocks of the end-to-end example of spec.md section 8
ExampleBlocks == {bAcme, bBeta, bGamma}

\* the company numbers the detail links of Blocks give, '' included
Numbers == {company_number_of(b.href) : b \in Blocks}

\* soup.find_all('li', class_='type-company') of a fetched page
PagesOf(blocks) == UNION {[1..n -> blocks] : n \in 0..MaxBlocks}

\* spec.md section 8, end-to-end example: what the registry serves for "technology";
\* the example leaves "finance" open: any page of the same three companies
example_pages(s, p) ==
    CASE s = 1 /\ p = 1 -> {<<bAcme, bBeta>>}
      [] s = 1 /\ p = 2 -> {<<bAcme, bGamma>>}
      [] OTHER -> PagesOf(ExampleBlocks)

\* nothing fails in the example
MayFail(w) == w = "any"

\* what the registry has for (sector, page): in world "rerun" the page it served
\* before, when it served one
upstream_pages(w, s, p, before) ==
    IF w = "example" THEN example_pages(s, p)
    ELSE IF w = "rerun" /\ \E t \in before : t.s = s /\ t.p = p
         THEN {t.results : t \in {u \in before : u.s = s /\ u.p = p}}
         ELSE PagesOf(Blocks)

\* what session.get + raise_for_status can give for (sector, page): an error, or a page
Responses(w, s, p, before) ==
    {[ok |-> FALSE, results |-> <<>>] : e \in IF MayFail(w) THEN {1} ELSE {}} \cup
    {[ok |-> TRUE, results |-> r] : r \in upstream_pages(w, s, p, before)}

-----------------------------------------------------------------------------
(* Fetch Client + Parser: search_companies *)

\* (variant of search_except: the error is logged and raised again)
search_except_reraise == [raised |-> TRUE, companies |-> <<>>]

\* the except branch of search_companies: log the error and return []
search_except == [raised |-> FALSE, companies |-> <<>>]

\* search_companies: the list it returns (raised: an exception leaves it instead)
search_companies(v, resp, now) ==
    IF resp.ok THEN [raised |-> FALSE, companies |-> parse_results(v, resp.results, now, 1)]
    ELSE search_except

\* history: how a request ended
request_outcome(resp, found) ==
    IF ~resp.ok THEN "error" ELSE IF found = <<>> THEN "empty" ELSE "results"

Request(s, p, outcome) == <<"request", s, p, outcome>>
Sleep(seconds) == <<"sleep", seconds, 0, "">>

\* '# Rate limiting': time.sleep(1) after a page with companies
inter_request_delay == 1

\* (variant of inter_sector_delay: the same second as between pages)
inter_sector_delay_short == 2 - 1

\* '# Additional delay between sectors': time.sleep(2)
inter_sector_delay == 2

-----------------------------------------------------------------------------
(* Pagination/Sector Driver: scrape_and_save and scrape_companies_by_sector *)

\* lastSave when the last step was no persistence call
NoSave == [outcome |-> "none"]
\* lastSave after one: how it ended, the record it was given, and the rows of the
\* table that had the record's company_number before the call
SaveNote(outcome, company, db) ==
    [outcome |-> outcome, company |-> company,
     before |-> conflicting(db, excluded_row(company))]

EmptyStats == [k \in {} |-> 0]
NoCalls == [n \in Numbers |-> 0]

\* state of a fresh invocation, before connect_db
RunStart ==
    /\ pc = "start"
    /\ sectorIdx = 0 /\ page = 0 /\ companies = <<>> /\ idx = 0
    /\ sector_count = 0 /\ total_saved = 0 /\ sector_stats = EmptyStats
    /\ conn = "none"
    /\ seen_companies = {} /\ all_companies = <<>>
    /\ events = <<>> /\ calls = NoCalls /\ lastSave = NoSave

Init ==
    /\ variant \in Variants /\ world = "any" /\ run = 1 /\ store = {}
    /\ served = {} /\ firstStore = {} /\ tx = <<>> /\ result = NoBlock /\ NoSic
    /\ \E plan \in Plans :
          sectors = plan.sectors /\ max_pages = plan.max_pages
          /\ invocations = plan.invocations
    /\ RunStart

InitExample ==
    /\ variant \in Variants /\ world = "example" /\ run = 1 /\ store = {}
    /\ served = {} /\ firstStore = {} /\ tx = <<>> /\ result = NoBlock /\ NoSic
    /\ sectors = <<"technology", "finance">> /\ max_pages = main_max_pages
    /\ invocations = 2
    /\ RunStart

\* (variant of first_page: range(max_pages))
first_page_zero == 1 - 1

\* `for page in range(1, max_pages + 1)`: the first page of a sector
first_page == 1

\* (variant of after_page: range(1, max_pages + 2))
after_page_one_more(p, cap) ==
    IF p <= cap THEN [pc |-> "fetch", page |-> p + 1] ELSE [pc |-> "endsector", page |-> p]

\* `for page in range(1, max_pages + 1)`: where the driver goes after a page whose
\* companies are all handled
after_page(p, cap) ==
    IF p < cap THEN [pc |-> "fetch", page |-> p + 1] ELSE [pc |-> "endsector", page |-> p]

\* (variant of connect_db: the error is logged and None returned)
connect_db_returns_none(connected) ==
    [raised |-> FALSE, conn |-> IF connected THEN "open" ELSE "none"]

\* connect_db: psycopg2.connect(**self.db_config); on an exception log and raise
connect_db(connected) ==
    IF connected THEN [raised |-> FALSE, conn |-> "open"]
    ELSE [raised |-> TRUE, conn |-> "none"]

\* (variant of conn_close: scrape_and_save without the finally clause)
conn_close_skipped(c) == c

\* finally: conn.close(); "closed_twice" records a close() of a connection that was
\* closed before
conn_close(c) == IF c = "closed" THEN "closed_twice" ELSE "closed"

\* the script invoked twice on upstream content that does not change, nothing failing
InitRerun ==
    /\ variant \in Variants /\ world = "rerun" /\ run = 1 /\ store = {}
    /\ served = {} /\ firstStore = {} /\ tx = <<>> /\ result = NoBlock /\ NoSic
    /\ \E plan \in RerunPlans :
          sectors = plan.sectors /\ max_pages = plan.max_pages
          /\ invocations = plan.invocations
    /\ RunStart

\* conn = self.connect_db(); total_saved = 0; sector_stats = {}; first `for sector`
\* (simple_scraper.py: all_companies = []; seen_companies = set())
Connect ==
    /\ pc = "start"
    /\ \E connected \in IF MayFail(world) THEN BOOLEAN ELSE {TRUE} :
          IF variant \in DbVariants /\ connect_db(connected).raised
          THEN /\ pc' = "raised"
               /\ UNCHANGED <<sectorIdx, page, sector_count, conn>>
          ELSE /\ pc' = "fetch"
               /\ sectorIdx' = 1 /\ page' = first_page /\ sector_count' = 0
               /\ conn' = IF variant \in DbVariants THEN connect_db(connected).conn
                          ELSE conn
    /\ UNCHANGED <<api_key, max_companies, term, start_index, results, result, tx, variant, sectors, max_pages, invocations, world, served, firstStore, run, companies, idx,
                   total_saved, sector_stats, store, seen_companies, all_companies, events,
                   calls, lastSave>>

\* (variant of after_empty_page: `continue` in place of `break`)
after_empty_page_continue(p, cap) ==
    IF p < cap THEN [pc |-> "fetch", page |-> p + 1] ELSE [pc |-> "endsector", page |-> p]

\* `if not companies: break`: where the driver goes after a page without companies
after_empty_page(p, cap) == [pc |-> "endsector", page |-> p]

\* companies = self.search_companies(sector, page=page); if not companies: break
\* (an exception out of search_companies would leave scrape_and_save through
\* finally: conn.close())
Fetch ==
    /\ pc = "fetch"
    /\ \E resp \in Responses(world, sectorIdx, page, served) :
          LET got == search_companies(variant, resp, run)
              found == got.companies
          IN  /\ companies' = found
              /\ served' = IF world = "rerun"
                           THEN served \cup {[s |-> sectorIdx, p |-> page,
                                               results |-> resp.results]}
                           ELSE served
              /\ events' = Append(events, Request(sectorIdx, page, request_outcome(resp, found)))
              /\ IF got.raised
                 THEN /\ pc' = "raised" /\ idx' = 0 /\ page' = page
                      /\ conn' = IF variant \in DbVariants THEN conn_close(conn) ELSE conn
                 ELSE /\ conn' = conn
                      /\ IF found = <<>>
                         THEN /\ pc' = after_empty_page(page, max_pages).pc
                              /\ page' = after_empty_page(page, max_pages).page
                              /\ idx' = 0
                         ELSE pc' = "save" /\ idx' = 1 /\ page' = page
    /\ lastSave' = NoSave
    /\ UNCHANGED <<api_key, max_companies, term, start_index, results, result, tx, variant, sectors, max_pages, invocations, world, firstStore, run,
                   sectorIdx, sector_count, total_saved, sector_stats, store,
                   seen_companies, all_companies, calls>>

\* after the body of `for company in companies`: next company, or the end of the page
\* (log, time.sleep(1)) and the next page or the end of `for page`
AfterCompany ==
    IF idx < Len(companies)
    THEN /\ idx' = idx + 1
         /\ UNCHANGED <<pc, page, events>>
    ELSE /\ idx' = 0
         /\ events' = Append(events, Sleep(inter_request_delay))
         /\ pc' = after_page(page, max_pages).pc
         /\ page' = after_page(page, max_pages).page

\* what leaves scrape_and_save when save_company_to_db raises: finally: conn.close()
SaveRaised ==
    /\ pc' = "raised" /\ conn' = conn_close(conn)
    /\ UNCHANGED <<idx, page, events>>

\* db scripts, one iteration of `for company in companies`:
\*   company['sector_keyword'] = sector
\*   if self.save_company_to_db(company, conn): sector_count += 1; total_saved += 1
Save ==
    /\ pc = "save" /\ variant \in DbVariants
    /\ LET company == [companies[idx] EXCEPT !.sector_keyword = sectors[sectorIdx]]
       IN  /\ companies' = [companies EXCEPT ![idx] = company]
           /\ calls' = [calls EXCEPT ![company.company_number] = Bump(@)]
           /\ \E outcome \in IF MayFail(world) THEN SaveOutcomes ELSE {"ok"} :
                 /\ lastSave' = SaveNote(outcome, company, store)
                 /\ store' = saved_store(variant, store, company, run, outcome)
                 /\ sector_count' = IF save_result(outcome) = "True"
                                    THEN sector_count + 1 ELSE sector_count
                 /\ total_saved' = IF save_result(outcome) = "True"
                                   THEN total_saved + 1 ELSE total_saved
                 /\ IF save_result(outcome) = "raise"
                    THEN SaveRaised
                    ELSE AfterCompany /\ conn' = conn
    /\ UNCHANGED <<api_key, max_companies, term, start_index, results, result, tx, variant, sectors, max_pages, invocations, world, served, firstStore, run, sectorIdx,
                   sector_stats, seen_companies, all_companies>>

\* (variant of is_new: the test against seen_companies left out)
is_new_unchecked(company_number, seen) == company_number # ""

\* simple_scraper.py: `company_number and company_number not in seen_companies`
is_new(company_number, seen) == company_number # "" /\ company_number \notin seen

\* simple_scraper.py, one iteration of `for company in companies`
Collect ==
    /\ pc = "save" /\ variant = "simple_scraper"
    /\ LET company_number == companies[idx].company_number
           company == [companies[idx] EXCEPT !.sector_keyword = sectors[sectorIdx]]
       IN  IF is_new(company_number, seen_companies)
           THEN /\ seen_companies' = seen_companies \cup {company_number}
                /\ companies' = [companies EXCEPT ![idx] = company]
                /\ all_companies' = Append(all_companies, company)
                /\ calls' = [calls EXCEPT ![company_number] = Bump(@)]
           ELSE UNCHANGED <<seen_companies, companies, all_companies, calls>>
    /\ AfterCompany
    /\ lastSave' = NoSave
    /\ UNCHANGED <<api_key, max_companies, term, start_index, results, result, tx, variant, sectors, max_pages, invocations, world, served, firstStore, run, sectorIdx,
                   sector_count, total_saved, sector_stats, store, conn>>

\* simple_scraper.py, create_sql_import: the VALUES (...) tuple written for a company
\* (.get(key, '') of a key the parser never set is ''; the status is the literal
\* 'active'; the date goes through strptime / strftime, NULL when that raises)
sql_values(company) ==
    [company_number |-> company.company_number,
     company_name |-> company.company_name,
     company_type |-> IF company.company_type = None THEN "" ELSE company.company_type,
     company_status |-> "active",
     date_of_creation |-> IF company.date_of_creation = None THEN None
                          ELSE strptime_date(company.date_of_creation),
     address |-> IF company.address = None THEN "" ELSE company.address,
     sector_keyword |-> IF company.sector_keyword = None THEN "" ELSE company.sector_keyword,
     company_url |-> company.company_url,
     scraped_at |-> company.scraped_at]

\* INSERT ... ON CONFLICT (company_number) DO NOTHING, one statement per company
RECURSIVE sql_import(_, _, _)
sql_import(db, list, i) ==
    IF i > Len(list) THEN db
    ELSE sql_import(IF conflicting(db, sql_values(list[i])) = {}
                    THEN db \cup {sql_values(list[i])} ELSE db,
                    list, i + 1)

\* simple_scraper.py main(): create_sql_import(companies), and the file it writes
\* loaded into the table
Import ==
    /\ pc = "import"
    /\ store' = sql_import(store, all_companies, 1)
    /\ pc' = "done"
    /\ UNCHANGED <<api_key, max_companies, term, start_index, results, result, tx, variant, sectors, max_pages, invocations, world, served, firstStore, run, sectorIdx, page,
                   companies, idx, sector_count, total_saved, sector_stats, conn,
                   seen_companies, all_companies, events, calls, lastSave>>

\* sector_stats[sector] = sector_count; time.sleep(2); the next `for sector`, or the
\* end of the loop
EndSector ==
    /\ pc = "endsector"
    /\ sector_stats' =
          IF variant \in DbVariants
          THEN [k \in DOMAIN sector_stats \cup {sectors[sectorIdx]} |->
                   IF k = sectors[sectorIdx] THEN sector_count ELSE sector_stats[k]]
          ELSE sector_stats
    /\ events' = Append(events, Sleep(inter_sector_delay))
    /\ IF sectorIdx < Len(sectors)
       THEN /\ sectorIdx' = sectorIdx + 1 /\ page' = first_page /\ sector_count' = 0
            /\ pc' = "fetch"
       ELSE /\ pc' = IF variant \in DbVariants THEN "summary" ELSE "import"
            /\ UNCHANGED <<sectorIdx, page, sector_count>>
    /\ lastSave' = NoSave
    /\ UNCHANGED <<api_key, max_companies, term, start_index, results, result, tx, variant, sectors, max_pages, invocations, world, served, firstStore, run, companies, idx,
                   total_saved, store, conn, seen_companies, all_companies, calls>>

\* the summary log, the two statistics queries, cur.close(); finally: conn.close()
Summary ==
    /\ pc = "summary"
    /\ \E queries_ok \in IF MayFail(world) THEN BOOLEAN ELSE {TRUE} :
          pc' = IF queries_ok THEN "done" ELSE "raised"
    /\ conn' = conn_close(conn)
    /\ UNCHANGED <<api_key, max_companies, term, start_index, results, result, tx, variant, sectors, max_pages, invocations, world, served, firstStore, run, sectorIdx, page,
                   companies, idx, sector_count, total_saved, sector_stats, store,
                   seen_companies, all_companies, events, calls, lastSave>>

\* (variant of new_seen_companies: the index of the previous invocation is kept)
new_seen_companies_kept(previous) == previous

\* simple_scraper.py: `seen_companies = set()` at the start of
\* scrape_companies_by_sector, whatever an earlier invocation had seen
new_seen_companies(previous) == {}

\* the script is invoked again; only the table survives
NewRun ==
    /\ pc \in {"done", "raised"}
    /\ run < invocations
    /\ run' = run + 1
    /\ pc' = "start"
    /\ sectorIdx' = 0 /\ page' = 0 /\ companies' = <<>> /\ idx' = 0
    /\ sector_count' = 0 /\ total_saved' = 0 /\ sector_stats' = EmptyStats
    /\ conn' = "none"
    /\ seen_companies' = new_seen_companies(seen_companies) /\ all_companies' = <<>>
    /\ events' = <<>> /\ calls' = NoCalls /\ lastSave' = NoSave
    /\ firstStore' = IF world = "rerun" THEN store ELSE firstStore
    /\ UNCHANGED <<api_key, max_companies, term, start_index, results, result, tx, variant, sectors, max_pages, invocations, world, served, store>>

Next == Connect \/ Fetch \/ Save \/ Collect \/ EndSector \/ Summary \/ Import \/ NewRun

Spec == Init /\ [][Next]_vars

SpecExample == InitExample /\ [][Next]_vars

SpecRerun == InitRerun /\ [][Next]_vars

-----------------------------------------------------------------------------
(* Concurrent writers: instances of the script saving into the same table, each *)
(* on its own connection; one save_company_to_db call is one transaction:      *)
(* cur.execute(insert_query, ...) and then conn.commit()                       *)

\* largest number of save_company_to_db calls that are in flight together
MaxSessions == 2
Sessions == 1..MaxSessions

\* the result blocks the instances get from the registry
SessionBlocks == {bAcme, bAcmeLong, bGamma}

\* the record instance s hands to save_company_to_db: a parsed block with the sector
\* keyword the instance is at (instance s: sector s of main()'s list, clock s)
session_company(v, block, s) ==
    [parse_company_result(v, block, s) EXCEPT !.sector_keyword = main_sectors[s]]

\* (variant of must_wait: a table without the unique constraint, nothing to wait for)
must_wait_never(key, inflight) == FALSE

\* ON CONFLICT (company_number), on the column declared UNIQUE: a statement whose
\* key an open transaction has written waits until that transaction ends
must_wait(key, inflight) == \E t \in inflight : t.company.company_number = key

\* the transactions other than s that have executed and not yet ended
InFlight(s) == {tx[t] : t \in {u \in Sessions \ {s} : tx[u].pc = "executed"}}

InitSessions ==
    /\ variant \in DbVariants /\ world = "sessions" /\ run = 1
    /\ sectors = SubSeq(main_sectors, 1, MaxSessions) /\ max_pages = 1 /\ invocations = 1
    /\ pc = "sessions"
    /\ sectorIdx = 0 /\ page = 0 /\ companies = <<>> /\ idx = 0
    /\ sector_count = 0 /\ total_saved = 0 /\ sector_stats = EmptyStats
    /\ conn = "open"
    /\ seen_companies = {} /\ all_companies = <<>>
    /\ events = <<>> /\ calls = NoCalls /\ lastSave = NoSave
    /\ served = {} /\ result = NoBlock /\ NoSic
    /\ store \in {{}, execute_upsert(variant, {}, session_company(variant, bAcme, 1), 0)}
    /\ firstStore = store
    /\ \E blocks \in [Sessions -> SessionBlocks] :
          tx = [s \in Sessions |->
                  [pc |-> "idle", company |-> session_company(variant, blocks[s], s),
                   old |-> {}, write |-> {}]]

\* cur.execute(insert_query, ...) of one instance: the row it writes, not yet
\* committed, and the committed row that one replaces
TxExecute ==
    /\ world = "sessions"
    /\ \E s \in Sessions :
          LET company == tx[s].company
              key == company.company_number
              after == execute_upsert(variant, store, company, s)
          IN  /\ tx[s].pc = "idle"
              /\ ~must_wait(key, InFlight(s))
              /\ \E ok \in BOOLEAN :
                    tx' = [tx EXCEPT ![s] =
                             IF ok
                             THEN [pc |-> "executed", company |-> company,
                                   old |-> conflicting(store, excluded_row(company)),
                                   write |-> {r \in after : r.company_number = key}]
                             ELSE [pc |-> "failed", company |-> company,
                                   old |-> {}, write |-> {}]]
    /\ UNCHANGED <<api_key, max_companies, term, start_index, results, result, variant, sectors, max_pages, invocations, world, run, pc, sectorIdx,
                   page, companies, idx, sector_count, total_saved, sector_stats, store,
                   conn, seen_companies, all_companies, served, firstStore, events,
                   calls, lastSave>>

\* conn.commit() of one instance, or the except branch: conn.rollback()
TxCommit ==
    /\ world = "sessions"
    /\ \E s \in Sessions :
          /\ tx[s].pc = "executed"
          /\ \E ok \in BOOLEAN :
                IF ok
                THEN /\ store' = commit(store, (store \ tx[s].old) \cup tx[s].write)
                     /\ tx' = [tx EXCEPT ![s].pc = "committed"]
                ELSE /\ store' = rollback(store, (store \ tx[s].old) \cup tx[s].write)
                     /\ tx' = [tx EXCEPT ![s].pc = "failed"]
    /\ UNCHANGED <<api_key, max_companies, term, start_index, results, result, variant, sectors, max_pages, invocations, world, run, pc, sectorIdx,
                   page, companies, idx, sector_count, total_saved, sector_stats,
                   conn, seen_companies, all_companies, served, firstStore, events,
                   calls, lastSave>>

NextSessions == TxExecute \/ TxCommit

SpecSessions == InitSessions /\ [][NextSessions]_vars

-----------------------------------------------------------------------------
(* The Result Parser on its own: one result block handed to parse_company_result *)

\* the paragraph texts of the blocks handed to the parser
ParseTexts == {tActive, tDissolved, tLongAddress, tPrivate, tPublic, tPrivatePublic,
               tIncorporated, tIncorporated2, tTwoDates}

\* the blocks handed to the parser: a heading with a link, at most MaxBlocks paragraphs
ParseBlocks ==
    {Block(H, TRUE, b[1], b[2], b[3]) :
        b \in {"Acme", "Delta PLC Limited"} \X {"/company/123", "/search/companies?q=echo"}
                \X UNION {[1..n -> ParseTexts] : n \in 0..MaxBlocks}}

InitParse ==
    /\ variant \in Variants /\ world = "parse" /\ run = 1 /\ store = {}
    /\ served = {} /\ firstStore = {} /\ tx = <<>>
    /\ sectors = <<"technology">> /\ max_pages = 1 /\ invocations = 1
    /\ result \in ParseBlocks /\ NoSic
    /\ pc = "parse"
    /\ sectorIdx = 0 /\ page = 0 /\ companies = <<>> /\ idx = 0
    /\ sector_count = 0 /\ total_saved = 0 /\ sector_stats = EmptyStats
    /\ conn = "none"
    /\ seen_companies = {} /\ all_companies = <<>>
    /\ events = <<>> /\ calls = NoCalls /\ lastSave = NoSave

\* company_data = self.parse_company_result(result); if company_data: append
Parse ==
    /\ world = "parse" /\ pc = "parse"
    /\ companies' = parse_results(variant, <<result>>, run, 1)
    /\ pc' = "parsed"
    /\ UNCHANGED <<api_key, max_companies, term, start_index, results, result, tx, variant, sectors, max_pages, invocations, world, served,
                   firstStore, run, sectorIdx, page, idx, sector_count, total_saved,
                   sector_stats, store, conn, seen_companies, all_companies, events,
                   calls, lastSave>>

NextParse == Parse

SpecParse == InitParse /\ [][NextParse]_vars

-----------------------------------------------------------------------------
(* scraper.py: scrape_active_companies_by_sic_code against the search API *)

\* largest max_companies a caller passes
MaxCompanies == 3
\* items_per_page=100 of the search call, and the step of start_index
items_per_page == 100
\* largest total_results the API reports
MaxTotal == 250

\* tech_related_terms (the sic_codes argument is not read)
tech_related_terms == <<"software", "technology", "digital", "consulting", "recruitment",
                        "engineering", "finance", "marketing", "healthcare", "retail">>

\* an item of results['items']; a key the API left out reads None
Item(title, company_number, company_status) ==
    [title |-> title, company_number |-> company_number, company_status |-> company_status]

\* the items the API serves
SicItems == {Item("Acme", "123", "active"), Item("Gamma Limited", "789", "active"),
             Item("Beta", "456", "dissolved"), Item("Echo", "", None)}

\* what search_companies returns: {} after a request error, or the JSON body with a
\* page of at most MaxBlocks items (standing for up to 100) and a total_results
SicResponses ==
    {EmptyDict} \cup
    {[items |-> i, total_results |-> t] :
        i \in UNION {[1..n -> SicItems] : n \in 0..MaxBlocks},
        t \in {items_per_page, MaxTotal}}

\* get_company_details: {} after a request error (None here), else the company type
DetailsResponses == {None, "ltd"}

\* extract_company_data, then update(extract_detailed_data(details)) when an API
\* key is set and the number is not empty; company_description None: key not set
extract_company_data(item, key, details) ==
    [company_name |-> IF item.title = None THEN "" ELSE item.title,
     company_number |-> IF item.company_number = None THEN "" ELSE item.company_number,
     company_status |-> IF item.company_status = None THEN "" ELSE item.company_status,
     company_description |->
        IF key /\ item.company_number \notin {None, ""}
        THEN (IF details[item.company_number] = None THEN ""
              ELSE details[item.company_number])
        ELSE None]

\* (variant of cap_reached: the check after companies.append left out)
cap_reached_never(list, cap) == FALSE

\* `if len(companies) >= max_companies: break`
cap_reached(list, cap) == Len(list) >= cap

\* `for item in results['items']`: active items appended until the cap is reached
RECURSIVE take_items(_, _, _, _, _, _)
take_items(list, items, i, cap, key, details) ==
    IF i > Len(items) THEN list
    ELSE IF items[i].company_status = "active"
         THEN LET longer == Append(list, extract_company_data(items[i], key, details))
              IN  IF cap_reached(longer, cap) THEN longer
                  ELSE take_items(longer, items, i + 1, cap, key, details)
         ELSE take_items(list, items, i + 1, cap, key, details)

InitSic ==
    /\ variant = "scraper" /\ world = "sic" /\ run = 1 /\ store = {}
    /\ served = {} /\ firstStore = {} /\ tx = <<>> /\ result = NoBlock
    /\ sectors = <<>> /\ max_pages = 0 /\ invocations = 1
    /\ api_key \in BOOLEAN /\ max_companies \in 0..MaxCompanies
    /\ term = 1 /\ start_index = 0 /\ results = EmptyDict
    /\ pc = "term"
    /\ sectorIdx = 0 /\ page = 0 /\ companies = <<>> /\ idx = 0
    /\ sector_count = 0 /\ total_saved = 0 /\ sector_stats = EmptyStats
    /\ conn = "none"
    /\ seen_companies = {} /\ all_companies = <<>>
    /\ events = <<>> /\ calls = NoCalls /\ lastSave = NoSave

\* `for term in tech_related_terms: if len(companies) >= max_companies: break`;
\* start_index = 0; `return companies` when the loop is over
SicTerm ==
    /\ world = "sic" /\ pc = "term"
    /\ IF term > Len(tech_related_terms) \/ Len(companies) >= max_companies
       THEN pc' = "returned" /\ start_index' = start_index
       ELSE pc' = "while" /\ start_index' = 0
    /\ UNCHANGED <<api_key, max_companies, term, results, result, tx, variant, sectors,
                   max_pages, invocations, world, served, firstStore, run, sectorIdx,
                   page, companies, idx, sector_count, total_saved, sector_stats, store,
                   conn, seen_companies, all_companies, events, calls, lastSave>>

\* `while len(companies) < max_companies`
SicWhile ==
    /\ world = "sic" /\ pc = "while"
    /\ IF Len(companies) < max_companies
       THEN pc' = "page" /\ term' = term
       ELSE pc' = "term" /\ term' = term + 1
    /\ UNCHANGED <<api_key, max_companies, start_index, results, result, tx, variant,
                   sectors, max_pages, invocations, world, served, firstStore, run,
                   sectorIdx, page, companies, idx, sector_count, total_saved,
                   sector_stats, store, conn, seen_companies, all_companies, events,
                   calls, lastSave>>

\* the body of the while loop: the search, `if not results.get('items'): break`,
\* the items, `if start_index + 100 >= total_results: break`, start_index += 100
SicPage ==
    /\ world = "sic" /\ pc = "page"
    /\ \E resp \in SicResponses :
       \E details \in [{"123", "789"} ->
                          IF api_key THEN DetailsResponses ELSE {None}] :
          /\ results' = resp
          /\ IF resp.items = <<>>
             THEN /\ companies' = companies
                  /\ pc' = "term" /\ term' = term + 1 /\ start_index' = start_index
             ELSE /\ companies' = take_items(companies, resp.items, 1, max_companies,
                                             api_key, details)
                  /\ IF start_index + items_per_page >= resp.total_results
                     THEN pc' = "term" /\ term' = term + 1 /\ start_index' = start_index
                     ELSE /\ pc' = "while" /\ term' = term
                          /\ start_index' = start_index + items_per_page
    /\ UNCHANGED <<api_key, max_companies, result, tx, variant, sectors, max_pages,
                   invocations, world, served, firstStore, run, sectorIdx, page, idx,
                   sector_count, total_saved, sector_stats, store, conn, seen_companies,
                   all_companies, events, calls, lastSave>>

NextSic == SicTerm \/ SicWhile \/ SicPage

\* the interpreter keeps running the function until it returns
SpecSic == InitSic /\ [][NextSic]_vars /\ WF_vars(NextSic)

-----------------------------------------------------------------------------
(* Properties *)

IsRequest(e) == e[1] = "request"
\* an absent or empty-string value
Empty(x) == x \in {None, ""}
FailedOutcomes == {"execute_error", "commit_error", "connection_lost"}
StoredNumbers == {r.company_number : r \in store}

\* C1: within one run no company number is handed to persistence more than once:
\* of the candidates that share a registryId, from different sectors or pages, only
\* the first reaches the Upserter (scripts the claim cites: db_scraper_fixed.py,
\* simple_scraper.py).
C1_OnePersistenceCallPerId ==
    variant \in {"db_scraper_fixed", "simple_scraper"} =>
        \A n \in Numbers : calls[n] <= 1

\* C2: an upsert on an existing row whose candidate has an empty (absent or
\* empty-string) address / postal code leaves the stored non-empty value unchanged,
\* and a non-empty value of the candidate replaces the stored one.
C2_FillGapsDontErase ==
    (variant \in DbVariants /\ lastSave.outcome = "ok") =>
        \A b \in lastSave.before : \A r \in store :
            r.company_number = b.company_number =>
                /\ IF Empty(lastSave.company.address)
                   THEN ~Empty(b.address) => r.address = b.address
                   ELSE r.address = lastSave.company.address
                /\ IF Empty(lastSave.company.postal_code)
                   THEN ~Empty(b.postal_code) => r.postal_code = b.postal_code
                   ELSE r.postal_code = lastSave.company.postal_code

\* C3: a result block with a dissolved marker in any paragraph yields no candidate,
\* whatever else it holds, so no record of such a block is in the list
\* search_companies returns, and none is handed to persistence.
C3_DissolvedYieldsNoCandidate ==
    variant \in DbVariants =>
        /\ \A i \in 1..Len(companies) : ~companies[i].from_dissolved
        /\ lastSave.outcome # "none" => ~lastSave.company.from_dissolved

\* C4: the parser never emits a candidate with an empty company number, and every
\* stored row has a non-empty company number.
C4_NoEmptyIdentityKey ==
    variant \in DbVariants =>
        /\ \A i \in 1..Len(companies) : companies[i].company_number # ""
        /\ \A r \in store : r.company_number # ""

\* C5: once a page of a sector has given zero candidates (an empty page or a failed
\* fetch), no later request of the run is for that sector.
C5_NoRequestAfterEmptyPage ==
    \A i \in 1..Len(events) : \A j \in 1..Len(events) :
        (/\ i < j
         /\ IsRequest(events[i]) /\ events[i][4] \in {"empty", "error"}
         /\ IsRequest(events[j]))
        => events[j][2] # events[i][2]

\* C5 witness: page 1 of a sector gave zero candidates while the page cap allowed a
\* page 2, and the driver has left the sector loop.
C5_Witness ==
    /\ max_pages >= 2
    /\ pc \in {"summary", "done"}
    /\ \E i \in 1..Len(events) : events[i] = Request(1, 1, "empty")

\* C6: in the end-to-end example (technology page 1: A(123), dissolved B(456); page
\* 2: A(123), C(789)) the rows stored after the run are exactly {123, 789}, 456 is
\* never persisted, 123 is persisted once, and technology is reported with 2 saved.
C6_EndToEndExample ==
    (world = "example" /\ variant = "db_scraper_fixed" /\ run = 1 /\ pc = "done") =>
        /\ StoredNumbers = {"123", "789"}
        /\ calls["456"] = 0
        /\ calls["123"] = 1
        /\ sector_stats["technology"] = 2

\* C7: an upsert on an existing row sets the stored name to the candidate's name
\* and fills a previously empty address with the candidate's non-empty address.
C7_MergeNameAndAddress ==
    (variant \in DbVariants /\ lastSave.outcome = "ok") =>
        \A b \in lastSave.before : \A r \in store :
            r.company_number = b.company_number =>
                /\ r.company_name = lastSave.company.company_name
                /\ (Empty(b.address) /\ ~Empty(lastSave.company.address))
                      => r.address = lastSave.company.address

\* C7 witness: run 1 stored 'Acme' without address, run 2 upserted 'Acme Ltd' with
\* an address, and the row now has both.
C7_Witness ==
    /\ run = 2 /\ lastSave.outcome = "ok"
    /\ lastSave.company.company_name = "Acme Ltd"
    /\ lastSave.company.address = "1 High Street, London, SW1A 1AA"
    /\ \E b \in lastSave.before :
          b.company_name = "Acme" /\ b.address = None /\ b.scraped_at = 1
    /\ \E r \in store :
          /\ r.company_number = "123" /\ r.company_name = "Acme Ltd"
          /\ r.address = "1 High Street, London, SW1A 1AA"

\* C8: after a failed fetch of page p of a sector the driver does not raise: it
\* leaves the sector (no further page of it is requested), and the next request,
\* if the list has another sector, is page 1 of that sector.
C8_FetchFailSoft ==
    \A i \in 1..Len(events) :
        (IsRequest(events[i]) /\ events[i][4] = "error") =>
            LET s == events[i][2]
            IN  /\ i = Len(events) => (pc = "endsector" /\ sectorIdx = s)
                /\ i < Len(events) => events[i + 1] = Sleep(2)
                /\ (i + 1 = Len(events) /\ s < Len(sectors))
                      => (pc = "fetch" /\ sectorIdx = s + 1 /\ page = 1)
                /\ i + 2 <= Len(events)
                      => (IsRequest(events[i + 2]) /\ events[i + 2][2] = s + 1
                          /\ events[i + 2][3] = 1)

\* C8 witness: the fetch of page 1 of the first sector failed and the second
\* sector was requested.
C8_Witness ==
    /\ Len(events) >= 3
    /\ events[1] = Request(1, 1, "error")
    /\ IsRequest(events[3]) /\ events[3][2] = 2

\* C9: a failed upsert leaves the committed table exactly as it was: no row of an
\* earlier candidate changes or disappears and no row of the failed one is left.
C9_FailedSaveLeavesStore ==
    [][lastSave'.outcome \in FailedOutcomes => store' = store]_vars

\* C9 witness: a commit failed for a candidate without a stored row while the table
\* held a row of an earlier candidate; the table has no row of the failed one.
C9_Witness ==
    /\ lastSave.outcome = "commit_error"
    /\ lastSave.before = {}
    /\ store # {}
    /\ \A r \in store : r.company_number # lastSave.company.company_number

\* C10: a persistence failure of one candidate (constraint violation or
\* connectivity loss) does not make the driver raise: the failed candidate adds
\* nothing to the saved counters and the driver goes on with the next candidate of
\* the page (script the claim cites: db_scraper_fixed.py).
C10_PersistFailureDoesNotRaise ==
    [][(variant = "db_scraper_fixed" /\ lastSave'.outcome \in FailedOutcomes) =>
          /\ pc' # "raised"
          /\ total_saved' = total_saved /\ sector_count' = sector_count
          /\ idx < Len(companies) => (pc' = "save" /\ idx' = idx + 1)]_vars

\* C11: whatever upserts ran, in one invocation or several, the table holds at most
\* one row per company number; a number seen under two sector keywords is one row.
C11_OneRowPerNumber ==
    \A r1 \in store : \A r2 \in store :
        r1.company_number = r2.company_number => r1 = r2

\* C11 witness: company 123 was stored under "technology" and then upserted under
\* "software"; the table holds one row for it.
C11_Witness ==
    /\ lastSave.outcome = "ok"
    /\ lastSave.company.company_number = "123"
    /\ lastSave.company.sector_keyword = "software"
    /\ \E b \in lastSave.before : b.sector_keyword = "technology"
    /\ Cardinality({r \in store : r.company_number = "123"}) = 1

\* C12: an upsert that hits an existing row leaves the row's company_type,
\* date_of_creation and sector_keyword as they were, whatever the candidate carries.
C12_FirstWriteWins ==
    (variant \in DbVariants /\ lastSave.outcome = "ok") =>
        \A b \in lastSave.before : \A r \in store :
            r.company_number = b.company_number =>
                /\ r.company_type = b.company_type
                /\ r.date_of_creation = b.date_of_creation
                /\ r.sector_keyword = b.sector_keyword

\* C12 witness: the stored row of 123 has no date and sector "technology"; the
\* candidate upserted carries a date and sector "software"; the row keeps its own.
C12_Witness ==
    /\ lastSave.outcome = "ok"
    /\ lastSave.company.company_number = "123"
    /\ lastSave.company.date_of_creation = "2020-01-01"
    /\ lastSave.company.sector_keyword = "software"
    /\ \E b \in lastSave.before :
          b.date_of_creation = None /\ b.sector_keyword = "technology"
    /\ \E r \in store :
          /\ r.company_number = "123" /\ r.date_of_creation = None
          /\ r.sector_keyword = "technology"

\* C13: no error aborts the run: once the connection is established, whatever fetch,
\* parse or persistence failure happens, scrape_and_save is not left by an exception
\* (it goes through every sector and ends with the statistics); script the claim
\* cites: db_scraper_fixed.py.
C13_NoErrorAbortsRun ==
    (variant = "db_scraper_fixed" /\ conn # "none") => pc # "raised"

\* C14: when the connection cannot be established the run ends before any sector
\* work: as long as the db scripts hold no connection, no request has been issued
\* and no candidate parsed or handed to persistence.
C14_NoWorkWithoutConnection ==
    (variant \in DbVariants /\ conn = "none") =>
        /\ events = <<>>
        /\ companies = <<>>
        /\ calls = NoCalls
        /\ pc \in {"start", "raised"}

\* C14 witness: the second invocation could not connect and has ended; the rows of
\* the first invocation are in the table.
C14_Witness ==
    /\ variant = "db_scraper_fixed" /\ run = 2
    /\ pc = "raised" /\ conn = "none"
    /\ store # {}

\* the requests of the run so far, in the order they were issued
Requests == SelectSeq(events, IsRequest)

\* C15: sectors and pages are processed strictly in sequence, one attempt per page:
\* the first request is page 1 of sector 1, and each later request is either the
\* next page of the same sector or page 1 of the next sector (so no page is skipped
\* or requested twice and sector i is finished before sector i+1 starts); and the
\* driver goes from a page's candidates to the next request only when it has
\* handled the last of them.
C15_StrictlySequential ==
    /\ [](/\ Requests # <<>> => (Requests[1][2] = 1 /\ Requests[1][3] = 1)
          /\ \A k \in 1..(Len(Requests) - 1) :
                \/ Requests[k + 1][2] = Requests[k][2]
                   /\ Requests[k + 1][3] = Requests[k][3] + 1
                \/ Requests[k + 1][2] = Requests[k][2] + 1
                   /\ Requests[k + 1][3] = 1)
    /\ [][(pc = "save" /\ pc' = "fetch") => idx = Len(companies)]_vars

\* C15 witness: page 1 of the first sector gave two candidates, both were handed to
\* persistence, and page 2 was requested after the delay.
C15_Witness ==
    /\ variant = "db_scraper_fixed"
    /\ Len(events) = 3
    /\ events[1] = Request(1, 1, "results") /\ events[2] = Sleep(1)
    /\ IsRequest(events[3]) /\ events[3][3] = 2
    /\ calls["123"] + calls["789"] = 2

\* C16: no sector gets more than max_pages requests; a request for page p of a
\* sector is followed by a request for the same sector exactly when page p gave at
\* least one candidate and p is below max_pages (otherwise the next request is for
\* the next sector), and the driver leaves a sector only after such a last page.
C16_PageCap ==
    /\ \A s \in 1..Len(sectors) :
          Cardinality({k \in 1..Len(Requests) : Requests[k][2] = s}) <= max_pages
    /\ \A k \in 1..(Len(Requests) - 1) :
          (Requests[k + 1][2] = Requests[k][2])
              <=> (Requests[k][4] = "results" /\ Requests[k][3] < max_pages)
    /\ (pc \in {"endsector", "summary", "import", "done"} /\ Requests # <<>>) =>
          ~(Requests[Len(Requests)][4] = "results"
            /\ Requests[Len(Requests)][3] < max_pages)

\* C16 witness: page 1 and page 2 of a sector both gave candidates, the cap is 2,
\* and the driver has left the page loop without a third request.
C16_Witness ==
    /\ max_pages = 2 /\ pc = "endsector"
    /\ Requests = <<Request(1, 1, "results"), Request(1, 2, "results")>>

\* the request before the one at position j of events
PrevRequest(j) ==
    CHOOSE k \in 1..(j - 1) :
        IsRequest(events[k]) /\ \A m \in (k + 1)..(j - 1) : ~IsRequest(events[m])

\* C17: every request but the first of a run comes right after a delay: the
\* inter-request delay when it is the next page of the same sector, a longer delay
\* when it is the first page of the next sector, whether the sector before ended on
\* its page cap, on an empty page or on a fetch error.
C17_PolitenessOrdering ==
    \A j \in 2..Len(events) :
        IsRequest(events[j]) =>
            /\ events[j - 1][1] = "sleep"
            /\ IF events[PrevRequest(j)][2] = events[j][2]
               THEN events[j - 1][2] = inter_request_delay
               ELSE events[j - 1][2] > inter_request_delay

\* C17 witness: the first sector ended on an empty page 1 and the second sector was
\* requested after the inter-sector delay alone.
C17_Witness ==
    /\ variant = "simple_scraper"
    /\ Len(events) = 3
    /\ events[1] = Request(1, 1, "empty")
    /\ events[2] = Sleep(inter_sector_delay)
    /\ events[3][1] = "request" /\ events[3][2] = 2

\* a table without its last_checked_at / updated_at timestamps
Untimed(db) == {[r EXCEPT !.last_checked_at = 0, !.updated_at = 0] : r \in db}

\* C18: nothing but the table carries over to a second invocation: it starts at page
\* 1 of sector 1, and when it ends, on upstream content that did not change, the
\* table holds the same company numbers with the same descriptive fields as after
\* the first invocation; only last_checked_at / updated_at may differ.
C18_RerunIdempotent ==
    (world = "rerun" /\ variant \in DbVariants /\ run = 2) =>
        /\ Requests # <<>> => (Requests[1][2] = 1 /\ Requests[1][3] = 1)
        /\ pc = "done" => Untimed(store) = Untimed(firstStore)

\* C18 witness: the second invocation has ended; it upserted the rows the first one
\* stored (their timestamps moved) and the table is otherwise the same.
C18_Witness ==
    /\ world = "rerun" /\ variant = "db_scraper_fixed" /\ run = 2 /\ pc = "done"
    /\ Cardinality(store) = 2
    /\ \A r \in store : r.updated_at = 2
    /\ store # firstStore
    /\ Untimed(store) = Untimed(firstStore)

\* the tables that some sequential order of the upserts of the sessions in S, one
\* after the other, leaves from table db
RECURSIVE SerialStores(_, _)
SerialStores(db, S) ==
    IF S = {} THEN {db}
    ELSE UNION {SerialStores(execute_upsert(variant, db, tx[s].company, s), S \ {s}) : s \in S}

\* C19: when the upserts of instances that run at the same time, with no lock of
\* their own, have all ended, the table holds one row per company number and is
\* what the committed upserts leave when run one after the other in some order.
C19_WritesSerialized ==
    (world = "sessions" /\ \A s \in Sessions : tx[s].pc \in {"committed", "failed"}) =>
        /\ \A r1 \in store : \A r2 \in store :
              r1.company_number = r2.company_number => r1 = r2
        /\ store \in SerialStores(firstStore, {s \in Sessions : tx[s].pc = "committed"})

\* C19 witness: two instances upserted company 123 under different names and both
\* committed; the table holds one row for it.
C19_Witness ==
    /\ world = "sessions"
    /\ tx[1].pc = "committed" /\ tx[2].pc = "committed"
    /\ tx[1].company.company_number = "123" /\ tx[2].company.company_number = "123"
    /\ tx[1].company.company_name # tx[2].company.company_name
    /\ Cardinality(store) = 1

\* C20: the statistics of a finished run name every sector of the list, and the
\* count reported for a sector is the number of records saved while it was
\* processed, a candidate that only updates a stored row not counting again: in a
\* first run on an empty table, the rows that carry the sector's keyword (the
\* keyword is written by the insert alone); script the claim cites:
\* db_scraper_fixed.py.
C20_StatisticsCountSavedRecords ==
    (variant = "db_scraper_fixed" /\ run = 1 /\ pc = "done") =>
        /\ DOMAIN sector_stats = {sectors[i] : i \in 1..Len(sectors)}
        /\ \A k \in DOMAIN sector_stats :
              sector_stats[k] = Cardinality({r \in store : r.sector_keyword = k})

\* C21: a block with a heading link and an extractable company number whose
\* paragraphs hold neither an 'Active' nor a 'Dissolved' marker is not dropped: it
\* yields a candidate, and the candidate's status is active.
C21_PermissiveDefault ==
    (/\ pc = "parsed"
     /\ company_number_of(result.href) # ""
     /\ \A i \in 1..Len(result.paras) :
           ~In("Active", result.paras[i]) /\ ~In("Dissolved", result.paras[i]))
    => /\ Len(companies) = 1
       /\ companies[1].company_status = "active"

\* the incorporation-date phrases of a paragraph text, in document order
date_phrases(text) ==
    IF text = tTwoDates THEN <<"1 January 2020", "2 February 2021">>
    ELSE IF text.date = "" THEN <<>> ELSE <<text.date>>

\* the entity-type markers of a paragraph text, in document order
type_markers(text) ==
    IF text = tPrivatePublic THEN <<"ltd", "plc">>
    ELSE IF In("Private limited Company", text) THEN <<"ltd">>
    ELSE IF In("Public limited Company", text) THEN <<"plc">>
    ELSE IF In("Limited liability partnership", text) THEN <<"llp">>
    ELSE <<>>

\* ... and those of all paragraphs of a block
RECURSIVE Observed(_, _, _)
Observed(phrases(_), paras, i) ==
    IF i > Len(paras) THEN <<>> ELSE phrases(paras[i]) \o Observed(phrases, paras, i + 1)

Last(seq) == seq[Len(seq)]

\* C22: when a block holds several entity-type markers or several incorporation-date
\* phrases, in different paragraphs or in the same one, the candidate carries the
\* last one in document order.
C22_LastObservedWins ==
    (pc = "parsed" /\ variant \in DbVariants /\ Len(companies) = 1) =>
        LET dates == Observed(date_phrases, result.paras, 1)
            types == Observed(type_markers, result.paras, 1)
        IN  /\ dates # <<>> => companies[1].date_of_creation = strptime_date(Last(dates))
            /\ types # <<>> => companies[1].company_type = Last(types)

\* C23: when no row has the candidate's company number, the Upserter inserts the
\* full row of the candidate with status active and data source 'companies_house';
\* every row of the table has status active and that data source.
C23_CreatedRowsActive ==
    variant = "db_scraper_fixed" =>
        /\ \A r \in store :
              r.company_status = "active" /\ r.data_source = "companies_house"
        /\ (/\ lastSave.outcome = "ok"
            /\ lastSave.before = {})
           => /\ conflicting(store, excluded_row(lastSave.company))
                    = {excluded_row(lastSave.company)}
              /\ excluded_row(lastSave.company).company_status = "active"

C23_Witness ==
    /\ variant = "db_scraper_fixed"
    /\ lastSave.outcome = "ok"
    /\ lastSave.before = {}
    /\ \E r \in store : /\ r.company_number = lastSave.company.company_number
                         /\ r.address # None /\ r.date_of_creation # None

\* the company numbers of the entries of a list of records
NumbersOf(list) == {list[i].company_number : i \in 1..Len(list)}

\* C24: the dedup index of simple_scraper.py is local to a run: it is empty when a
\* run starts and holds the numbers this run has collected and no others, so a
\* number an earlier run has seen and stored is collected again and goes to the
\* import, where the conflict policy of the table resolves it.
C24_DedupIndexRunLocal ==
    /\ [](variant = "simple_scraper" =>
            /\ pc = "start" => seen_companies = {}
            /\ seen_companies = NumbersOf(all_companies))
    /\ [][(/\ variant = "simple_scraper" /\ pc = "save"
            /\ companies[idx].company_number # ""
            /\ companies[idx].company_number \notin NumbersOf(all_companies))
           => /\ Len(all_companies') = Len(all_companies) + 1
              /\ Last(all_companies').company_number = companies[idx].company_number]_vars

C24_Witness ==
    /\ variant = "simple_scraper" /\ run = 2 /\ pc = "done"
    /\ "123" \in seen_companies
    /\ \E r \in store : r.company_number = "123" /\ r.scraped_at = 1
    /\ Cardinality(conflicting(store, [company_number |-> "123"])) = 1

\* the result blocks of the pages the registry has served
ServedBlocks == UNION {{t.results[i] : i \in 1..Len(t.results)} : t \in served}

\* the status simple_scraper.py has read from a block when its paragraph loop ends
ParsedStatus(b) ==
    scan_details("simple_scraper", b.name, new_company_data("simple_scraper", b, 0),
                 b.paras, 1).company_status

RECURSIVE SumOver(_, _)
SumOver(f, keys) ==
    IF keys = {} THEN 0
    ELSE LET k == CHOOSE x \in keys : TRUE IN f[k] + SumOver(f, keys \ {k})

\* C26: when the sector loop of scrape_and_save has ended, total_saved is the sum
\* of the per-sector counts in sector_stats, for every sector list, a list naming
\* a keyword more than once included.
C26_TotalIsSumOfSectorCounts ==
    (variant \in DbVariants /\ pc \in {"summary", "done"}) =>
        total_saved = SumOver(sector_stats, DOMAIN sector_stats)

\* C27: the connection scrape_and_save has obtained is open while the sector loop
\* and the statistics run, is closed when scrape_and_save is left (at its normal
\* end or by an exception out of the loop or the statistics queries), is closed
\* once, and nothing is written through it once it is closed.
C27_ConnectionClosedOnce ==
    /\ [](variant = "db_scraper_fixed" =>
            /\ pc \in {"fetch", "save", "endsector", "summary"} => conn = "open"
            /\ (pc \in {"done", "raised"} /\ conn # "none") => conn = "closed"
            /\ conn # "closed_twice")
    /\ [][(variant = "db_scraper_fixed" /\ conn = "closed") =>
              /\ store' = store
              /\ lastSave'.outcome = "none"
              /\ conn' \in {"closed", "none"}]_vars

\* C27 witness: save_company_to_db raised out of the sector loop after a row had
\* been saved, and the connection is closed.
C27_Witness ==
    /\ variant = "db_scraper_fixed"
    /\ pc = "raised" /\ conn = "closed"
    /\ store # {} /\ total_saved > 0

\* C28: the list scrape_companies_by_sector of simple_scraper.py builds never holds
\* two entries with the same company number nor an entry with an empty one; an
\* entry is the first candidate seen with its number, tagged with the sector that
\* was being searched then, and no later step of the run changes it.
C28_FirstOccurrenceKept ==
    /\ [](variant = "simple_scraper" =>
            /\ \A i, j \in 1..Len(all_companies) :
                  all_companies[i].company_number = all_companies[j].company_number
                  => i = j
            /\ \A i \in 1..Len(all_companies) : all_companies[i].company_number # "")
    /\ [][(variant = "simple_scraper" /\ pc' # "start") =>
              /\ Len(all_companies') >= Len(all_companies)
              /\ \A i \in 1..Len(all_companies) : all_companies'[i] = all_companies[i]
              /\ Len(all_companies') > Len(all_companies) =>
                    /\ pc = "save"
                    /\ all_companies' =
                          Append(all_companies,
                                 [companies[idx] EXCEPT !.sector_keyword = sectors[sectorIdx]])
              /\ (/\ pc = "save" /\ companies[idx].company_number # ""
                  /\ companies[idx].company_number \notin NumbersOf(all_companies))
                 => Len(all_companies') > Len(all_companies)]_vars

\* C28 witness: 123 was collected as 'Acme' under the first sector, the second
\* sector gave 123 again as 'Acme Ltd', and the list still holds the first entry.
C28_Witness ==
    /\ variant = "simple_scraper" /\ sectors = <<"technology", "software">>
    /\ sectorIdx = 2 /\ pc = "endsector"
    /\ Len(companies) = 1 /\ companies[1].company_name = "Acme Ltd"
    /\ Len(all_companies) = 1
    /\ all_companies[1].company_name = "Acme"
    /\ all_companies[1].sector_keyword = "technology"

\* the fields the DO UPDATE SET clause names
UpdatedFields == {"company_name", "address", "postal_code", "last_checked_at", "updated_at"}

\* C30: an upsert that hits an existing row leaves the row's company_status,
\* company_url, scraped_at and data_source as they were; the row after the upsert
\* differs from the row before at most in company_name, address, postal_code,
\* last_checked_at and updated_at.
C30_ConflictKeepsProvenance ==
    (variant \in DbVariants /\ lastSave.outcome = "ok") =>
        \A b \in lastSave.before :
            \E r \in store :
                /\ r.company_status = b.company_status
                /\ r.company_url = b.company_url
                /\ r.scraped_at = b.scraped_at
                /\ r.data_source = b.data_source
                /\ \A f \in DOMAIN b \ UpdatedFields : r[f] = b[f]

\* C30 witness: the second invocation upserts 123 with its own scraped_at and
\* another name; the row keeps the scraped_at of the first invocation.
C30_Witness ==
    /\ variant \in DbVariants /\ lastSave.outcome = "ok"
    /\ lastSave.company.company_number = "123" /\ lastSave.company.scraped_at = 2
    /\ \E b \in lastSave.before :
          b.scraped_at = 1 /\ b.company_name # lastSave.company.company_name
    /\ \E r \in store :
          /\ r.company_number = "123" /\ r.scraped_at = 1
          /\ r.company_name = lastSave.company.company_name
          /\ r.updated_at = 2

\* C29: scrape_active_companies_by_sic_code returns at most max_companies entries,
\* each with company_status 'active'; for a search term the next page is requested
\* only after a page that had items and whose start_index + 100 was below its
\* total_results, and only while the cap is not reached; and the function returns.
C29_SicScrapeBounded ==
    /\ [](world = "sic" =>
            /\ Len(companies) <= max_companies
            /\ \A i \in 1..Len(companies) : companies[i].company_status = "active"
            /\ pc = "page" =>
                  /\ Len(companies) < max_companies
                  /\ start_index > 0 =>
                        (results.items # <<>> /\ start_index < results.total_results))
    /\ [][(world = "sic" /\ pc = "page") =>
              IF results'.items = <<>>
                 \/ start_index + items_per_page >= results'.total_results
              THEN pc' = "term" /\ term' = term + 1
              ELSE pc' = "while" /\ term' = term
                   /\ start_index' = start_index + items_per_page]_vars
    /\ [][(world = "sic" /\ pc = "while" /\ Len(companies) >= max_companies) =>
              (pc' = "term" /\ term' = term + 1)]_vars
    /\ <>(world = "sic" => pc = "returned")

\* C29 witness: the cap of 3 was reached on a later page of a term, and the
\* function has returned three entries.
C29_Witness ==
    /\ world = "sic" /\ pc = "returned"
    /\ max_companies = MaxCompanies /\ Len(companies) = max_companies
    /\ start_index >= items_per_page
    /\ Len(results.items) = MaxBlocks /\ results.items[1].company_status = "active"
    /\ results.items[2].company_status = "active"
====
